---- MODULE Spec2Model ----
(***************************************************************************)
(* Model of src/server.py: start_server(port) configures the handler's     *)
(* extension map, then loops creating a TCPServer on port, port+1, ...     *)
(* until one attempt succeeds, serves forever, and leaves through          *)
(* sys.exit on KeyboardInterrupt (0) or on any other Exception (1).        *)
(*                                                                         *)
(* The environment is part of the state: the platform (which fixes the     *)
(* errno values the operating system reports), what stands on every port,  *)
(* and the platform's own MIME type for ".js".  The port range 1..65535 is *)
(* scaled down to 1..MaxPort.  Every except-handler body runs atomically;  *)
(* an interrupt is delivered at the three places where the code waits or   *)
(* has not yet entered the inner try: before the configuration, at the     *)
(* bind, and in serve_forever.                                             *)
(***************************************************************************)
EXTENDS Integers, Sequences, FiniteSets

\* ---- bounds ----
MaxPort == 4
MaxRequests == 2

\* ---- environment ----
Platforms == {"darwin", "linux", "win32"}
PortStates == {"free", "busy", "denied"}
JsDefaults == {"absent", "text/javascript", "application/javascript"}
Paths == {"app.js", "index.html"}

VARIABLES
    platform,        \* operating system the interpreter runs on
    portState,       \* what the OS answers to a bind on each valid port
    jsDefault,       \* the platform's MIME type for ".js" before line 9
    startPort,       \* the argument of start_server
    port,            \* local variable port
    pc,              \* "init", "bind", "serve", "exited"
    extensions_map,  \* handler.extensions_map
    httpd,           \* set of ports on which a listener of this process is open
    output,          \* lines printed to standard output
    exitStatus,      \* "none", "0", "1", "sigint"
    response,        \* last HTTP response sent
    requests,        \* number of requests handled
    attempts,        \* number of TCPServer constructions so far
    interruptedAt    \* where the interrupt arrived: "none" or the pc it met

vars == <<platform, portState, jsDefault, startPort, port, pc, extensions_map,
          httpd, output, exitStatus, response, requests, attempts, interruptedAt>>

env == <<platform, portState, jsDefault, startPort>>

\* ---- exceptions ----
OSError(n) == [type |-> "OSError", errno |-> n]
OverflowError == [type |-> "OverflowError", errno |-> 0]
KeyboardInterrupt == [type |-> "KeyboardInterrupt", errno |-> 0]
SystemExit(code) == [type |-> "SystemExit", errno |-> code]
NoException == [type |-> "none", errno |-> 0]

\* errno the operating system reports for a cause of failure
Errno(plat, cause) ==
    CASE cause = "busy" /\ plat = "darwin" -> 48
      [] cause = "busy" /\ plat = "linux" -> 98
      [] cause = "busy" /\ plat = "win32" -> 10048
      [] cause = "missing" -> 2
      [] OTHER -> 13

\* socketserver.TCPServer(("", p), handler): the exception it raises, if any.
\* A port beyond the valid range is refused by bind() with OverflowError.
TCPServer(p) ==
    IF p > MaxPort THEN OverflowError
    ELSE IF portState[p] = "free" THEN NoException
    ELSE OSError(Errno(platform, portState[p]))

\* the listener left open: a server created without the with statement
WithoutContextManager(h) == h

\* leaving the with block closes the listener
WithExit(h) == {}

\* every OSError retried: the errno test dropped
AnyOSErrorRetried(e) == e.type = "OSError"

\* every failure of the constructor retried: a catch-all in place of the test
AnyFailureRetried(e) == e.type \in {"OSError", "OverflowError"}

\* except OSError as e: if e.errno == 48
IsPortInUse(e) == e.type = "OSError" /\ e.errno = 48

\* except BaseException / a bare except as the outer handler
CatchesBaseException(e) == TRUE

\* except Exception as e (the outer handler): KeyboardInterrupt and
\* SystemExit derive from BaseException only
IsException(e) == e.type \in {"OSError", "OverflowError"}

\* httpd.handle_request() in place of serve_forever(): back to the loop
ServesOneRequest == TRUE

\* httpd.serve_forever() returns only after shutdown(), which nothing calls
ServeForeverReturns == FALSE

\* the failed open() left to propagate out of serve_forever
ErrorPropagates(e) == FALSE

\* the static-file handler answers a failed open() with an error response
SendsErrorResponse(e) == e.type = "OSError"

\* ---- printed lines ----
\* open: the listeners open at the moment the line is printed
Started(p, o) == [kind |-> "started", port |-> p, next |-> p, open |-> o]
InUse(old, new, o) == [kind |-> "inuse", port |-> old, next |-> new, open |-> o]
ShuttingDown(o) == [kind |-> "shutdown", port |-> 0, next |-> 0, open |-> o]
ErrorStarting(o) == [kind |-> "error", port |-> 0, next |-> 0, open |-> o]

\* ---- HTTP responses ----
NoResponse == [status |-> 0, path |-> "", ctype |-> ""]
Ext(path) == IF path = "app.js" THEN ".js" ELSE ".html"
guess_type(path) ==
    IF extensions_map[Ext(path)] # "absent" THEN extensions_map[Ext(path)]
    ELSE "application/octet-stream"

Init ==
    /\ platform \in Platforms
    /\ portState \in [1..MaxPort -> PortStates]
    /\ jsDefault \in JsDefaults
    /\ startPort \in 1..MaxPort
    /\ port = startPort
    /\ pc = "init"
    /\ extensions_map = [e \in {".js", ".html"} |->
                            IF e = ".js" THEN jsDefault ELSE "text/html"]
    /\ httpd = {}
    /\ output = <<>>
    /\ exitStatus = "none"
    /\ response = NoResponse
    /\ requests = 0
    /\ attempts = 0
    /\ interruptedAt = "none"

\* ---- exception propagation; the calling action fixes httpd' first ----
\* the process ends: by sys.exit, or by an exception nothing catches
Exit(status, lines) ==
    /\ pc' = "exited"
    /\ exitStatus' = status
    /\ output' = output \o lines
    /\ port' = port

UncaughtStatus(e) ==
    CASE e.type = "KeyboardInterrupt" -> "sigint"
      [] e.type = "SystemExit" /\ e.errno = 0 -> "0"
      [] OTHER -> "1"

\* lines 27-29: e reaches the outer try
Outer(e, lines) ==
    IF IsException(e)
    THEN Exit(UncaughtStatus(SystemExit(1)), lines \o <<ErrorStarting(httpd')>>)
    ELSE Exit(UncaughtStatus(e), lines)

\* lines 18-26: e is raised inside the inner try
InnerTry(e) ==
    IF IsPortInUse(e)
    THEN /\ port' = port + 1
         /\ output' = Append(output, InUse(port' - 1, port', httpd'))
         /\ pc' = "bind"
         /\ exitStatus' = exitStatus
    ELSE IF e.type = "KeyboardInterrupt"
    THEN Outer(SystemExit(0), <<ShuttingDown(httpd')>>)
    ELSE Outer(e, <<>>)

\* ---- actions ----
\* the handler class taken without the update of its extension map
ConfigureWithoutOverride ==
    /\ pc = "init"
    /\ pc' = "bind"
    /\ UNCHANGED <<env, port, extensions_map, httpd, output, exitStatus, response,
                   requests, attempts, interruptedAt>>

\* lines 8-11
Configure ==
    /\ pc = "init"
    /\ extensions_map' = [extensions_map EXCEPT ![".js"] = "application/javascript"]
    /\ pc' = "bind"
    /\ UNCHANGED <<env, port, httpd, output, exitStatus, response, requests,
                   attempts, interruptedAt>>

\* the startup line naming the requested port instead of the bound one
StartedLineOfRequestedPort == Started(startPort, httpd')

\* the line printed at line 16
StartedLine == Started(port, httpd')

\* lines 15-17: the listener is created, the startup line printed, and
\* serve_forever entered
BindSuccess ==
    /\ pc = "bind"
    /\ TCPServer(port) = NoException
    /\ attempts' = attempts + 1
    /\ httpd' = httpd \cup {port}
    /\ output' = Append(output, StartedLine)
    /\ pc' = "serve"
    /\ UNCHANGED <<env, port, extensions_map, exitStatus, response, requests,
                   interruptedAt>>

\* lines 15, 18-23, 27-29: the constructor raises, having closed its socket
BindFailure ==
    /\ pc = "bind"
    /\ TCPServer(port) # NoException
    /\ attempts' = attempts + 1
    /\ httpd' = httpd
    /\ InnerTry(TCPServer(port))
    /\ UNCHANGED <<env, extensions_map, response, requests, interruptedAt>>

\* line 17: serve_forever handles one request for path; exists tells whether
\* open() finds the file
HandleRequest ==
    /\ pc = "serve"
    /\ requests < MaxRequests
    /\ requests' = requests + 1
    /\ \E path \in Paths, exists \in BOOLEAN :
        LET e == IF exists THEN NoException ELSE OSError(Errno(platform, "missing"))
        IN IF e = NoException \/ SendsErrorResponse(e)
           THEN /\ response' = IF e = NoException
                                THEN [status |-> 200, path |-> path,
                                      ctype |-> guess_type(path)]
                                ELSE [status |-> 404, path |-> path,
                                      ctype |-> "text/html;charset=utf-8"]
                /\ IF ServeForeverReturns
                   THEN /\ httpd' = WithExit(httpd)
                        /\ pc' = "bind"
                   ELSE /\ httpd' = httpd
                        /\ pc' = "serve"
                /\ UNCHANGED <<port, output, exitStatus>>
           ELSE /\ response' = response
                /\ httpd' = WithExit(httpd)
                /\ InnerTry(e)
    /\ UNCHANGED <<env, extensions_map, attempts, interruptedAt>>

\* lines 24-26: KeyboardInterrupt raised inside the inner try, at the bind or
\* in serve_forever
Interrupt ==
    /\ pc \in {"bind", "serve"}
    /\ interruptedAt' = pc
    /\ httpd' = WithExit(httpd)
    /\ InnerTry(KeyboardInterrupt)
    /\ UNCHANGED <<env, extensions_map, response, requests, attempts>>

\* lines 7-11: KeyboardInterrupt raised before the inner try is entered
InterruptBeforeTry ==
    /\ pc = "init"
    /\ interruptedAt' = pc
    /\ httpd' = httpd
    /\ Outer(KeyboardInterrupt, <<>>)
    /\ UNCHANGED <<env, extensions_map, response, requests, attempts>>

Next ==
    \/ Configure
    \/ BindSuccess
    \/ BindFailure
    \/ HandleRequest
    \/ Interrupt
    \/ InterruptBeforeTry

Spec == Init /\ [][Next]_vars

\* the interpreter runs the sequential code on: a pending configuration or
\* bind attempt is eventually executed
FairSpec == Spec /\ WF_vars(Configure) /\ WF_vars(BindSuccess) /\ WF_vars(BindFailure)
\* ---- vocabulary of the properties ----
Last(q) == q[Len(q)]
LinesOf(k) == SelectSeq(output, LAMBDA l : l.kind = k)
HasLine(k) == Len(LinesOf(k)) > 0
\* the constructor has been called with the current value of port
Attempted == attempts = port - startPort + 1
\* the last constructor call failed for a reason other than port-in-use
FatalStartupError ==
    Attempted /\ (port > MaxPort \/ portState[port] = "denied")

\* C1: a start port that another process holds is retried at the next port
\* until a free one is bound; the diagnostics name the busy ports
\* startPort, startPort+1, ... in order, each with next = port + 1, and the
\* process never gives up on a port that is merely in use.
C1_BusyPortsRetriedInOrder ==
    /\ \A i \in 1..Len(LinesOf("inuse")) :
          /\ LinesOf("inuse")[i].port = startPort + i - 1
          /\ LinesOf("inuse")[i].next = LinesOf("inuse")[i].port + 1
          /\ portState[LinesOf("inuse")[i].port] = "busy"
    /\ (pc = "exited" /\ interruptedAt = "none" /\ port \in 1..MaxPort)
          => portState[port] # "busy"
    /\ pc = "serve" => \A p \in startPort..(port - 1) : portState[p] = "busy"

\* C2: a free start port is bound at the first attempt, the startup line
\* names it and no port-in-use line is printed; every startup line names the
\* port the listener is bound to.
C2_StartupLineNamesBoundPort ==
    /\ (portState[startPort] = "free" /\ attempts > 0) =>
          /\ attempts = 1
          /\ port = startPort
          /\ output[1] = Started(startPort, {startPort})
          /\ ~HasLine("inuse")
          /\ pc = "serve" => httpd = {startPort}
    /\ \A i \in 1..Len(output) :
          output[i].kind = "started" => output[i].open = {output[i].port}
    /\ pc = "serve" => Last(LinesOf("started")).port \in httpd
C2_Witness ==
    /\ pc = "serve"
    /\ startPort = 2
    /\ portState[startPort] = "free"
    /\ output = <<Started(2, {2})>>

\* C3: a constructor failure other than address-in-use is not retried: the
\* port stays, "Error starting server" is printed, the exit status is 1 and
\* no startup line was ever printed.
C3_OtherBindErrorIsFatal ==
    /\ \A i \in 1..Len(output) :
          output[i].kind = "inuse" => portState[output[i].port] # "denied"
    /\ (Attempted /\ port \in 1..MaxPort /\ portState[port] = "denied") =>
          /\ pc = "exited"
          /\ exitStatus = "1"
          /\ Last(output).kind = "error"
          /\ ~HasLine("started")
          /\ Len(LinesOf("error")) = 1
C3_Witness ==
    /\ pc = "exited"
    /\ exitStatus = "1"
    /\ port = startPort + 1
    /\ port \in 1..MaxPort
    /\ portState[port] = "denied"
    /\ Len(output) = 2

\* C4: an interrupt that arrives in the serve loop ends with the shutdown
\* line printed, the listener closed and exit status 0; no interrupt leads to
\* "Error starting server" or to exit status 1.
C4_InterruptExitsCleanly ==
    /\ interruptedAt = "serve" =>
          /\ pc = "exited"
          /\ exitStatus = "0"
          /\ httpd = {}
          /\ Last(output).kind = "shutdown"
    /\ interruptedAt # "none" => (exitStatus # "1" /\ ~HasLine("error"))
C4_Witness ==
    /\ interruptedAt = "serve"
    /\ requests > 0
    /\ exitStatus = "0"
    /\ Last(output) = ShuttingDown({})

\* C5: exit status 0 comes only from an interrupt-triggered shutdown, exit
\* status 1 only from a fatal startup error that is not port-in-use, and a
\* run with neither never exits.
C5_ExitStatusCauses ==
    /\ exitStatus = "0" => (interruptedAt # "none" /\ HasLine("shutdown"))
    /\ exitStatus = "1" => (interruptedAt = "none" /\ FatalStartupError)
    /\ (interruptedAt = "none" /\ ~FatalStartupError) => pc # "exited"

\* C6: once the startup line is printed, no step changes port, calls the
\* constructor again or prints a port-in-use line.
C6_PortFixedOnceBound ==
    [][HasLine("started") =>
          /\ port' = port
          /\ attempts' = attempts
          /\ Len(LinesOf("inuse"))' = Len(LinesOf("inuse"))
          /\ Len(LinesOf("started"))' = 1]_vars
C6_Witness ==
    /\ pc = "serve"
    /\ requests >= 2
    /\ response.status = 404
    /\ port > startPort

\* C7: a request that fails is answered with an error response and leaves
\* the server as it was: after any requests, and without an interrupt, the
\* listener is bound on the same port, the server serves and has not exited.
C7_RequestErrorsContained ==
    (requests > 0 /\ interruptedAt = "none") =>
        /\ pc = "serve"
        /\ exitStatus = "none"
        /\ httpd = {port}
        /\ Last(output) = Started(port, {port})
        /\ response.status \in {200, 404}
C7_Witness ==
    /\ requests >= 2
    /\ response.status = 404
    /\ pc = "serve"
    /\ httpd = {port}

\* C8: the ".js" override is in the extension map before the first bind
\* attempt and stays there, so every ".js" file served carries
\* Content-Type application/javascript whatever the platform default is.
C8_JsOverrideInPlace ==
    /\ (attempts > 0 \/ pc \in {"bind", "serve"}) =>
          extensions_map[".js"] = "application/javascript"
    /\ (response.status = 200 /\ Ext(response.path) = ".js") =>
          response.ctype = "application/javascript"
C8_Witness ==
    /\ jsDefault = "text/javascript"
    /\ port > startPort
    /\ response = [status |-> 200, path |-> "app.js",
                   ctype |-> "application/javascript"]

\* C9: the retry loop ends: port never passes the first out-of-range value,
\* the retries number at most MaxPort + 1 - startPort, the attempt on the
\* out-of-range port is fatal (error line, exit status 1), and the process
\* eventually serves or has exited.
C9_RetryLoopEnds ==
    /\ [](/\ port <= MaxPort + 1
          /\ Len(LinesOf("inuse")) <= MaxPort + 1 - startPort
          /\ (Attempted /\ port > MaxPort) =>
                /\ pc = "exited"
                /\ exitStatus = "1"
                /\ Last(output).kind = "error"
                /\ ~HasLine("started"))
    /\ <>(pc \in {"serve", "exited"})
C9_Witness ==
    /\ pc = "exited"
    /\ exitStatus = "1"
    /\ startPort = 1
    /\ port = MaxPort + 1
    /\ Len(LinesOf("inuse")) = MaxPort

\* C10: at most one listener is open, none is open while the next port is
\* about to be tried or after the process has exited, and the port-in-use,
\* shutdown and error lines are printed with the listener already closed.
C10_OneListenerNoneLeaked ==
    /\ Cardinality(httpd) <= 1
    /\ pc \in {"init", "bind", "exited"} => httpd = {}
    /\ pc = "serve" => httpd = {port}
    /\ \A i \in 1..Len(output) :
          output[i].kind # "started" => output[i].open = {}
C10_Witness ==
    /\ pc = "exited"
    /\ interruptedAt = "serve"
    /\ port > startPort
    /\ Last(output) = ShuttingDown({})
    /\ httpd = {}
====
